---------------------------- MODULE Spec2Model ----------------------------
(***************************************************************************)
(* A model of S3-lib: the asynchronous client (s3lib/s3asyncclient.py)     *)
(* and the synchronous client (s3lib/s3syncclient.py).                     *)
(*                                                                         *)
(* Strings are sequences of character codes, so that prefixes, the         *)
(* lexicographic order of keys and the splitting of names are computed.    *)
(* A remote call of the storage transport is an action that draws its      *)
(* outcome: "ok", "ClientError" (botocore's classified remote error) or    *)
(* "other" (any other exception: a connection error, an OSError).          *)
(***************************************************************************)
EXTENDS Integers, Sequences, FiniteSets, TLC

VARIABLES
    bucket_name,   \* AsyncS3Client._bucket_name: the active bucket
    lock,          \* AsyncS3Client.lock: TRUE while held
    semaphore,     \* AsyncS3Client.semaphore: the permits left
    switches,      \* the number of bucket switches made so far
    max_keys,      \* the MaxKeys of every listing request
    store,         \* the service: bucket -> (key -> content)
    calls,         \* the facade calls: call id -> record
    tasks,         \* the per-key coroutines: task id -> record
    upload,        \* the one upload_file_multipart call
    requests,      \* the remote requests the upload has issued, in order
    session        \* the service's state of the upload session

vars == <<bucket_name, lock, semaphore, switches, max_keys, store, calls,
          tasks, upload, requests, session>>

bulkVars == <<semaphore, max_keys, store, calls, tasks>>
uploadVars == <<upload, requests, session>>

-----------------------------------------------------------------------------
(* Characters and strings *)

Dot == 46
Slash == 47
Space == 32

EmptyStr == << >>

\* None, which is no string: a sequence holding a code no string holds.
None == <<0>>

\* The bucket names "b" and "c".
BucketB == <<98>>
BucketC == <<99>>
Buckets == {BucketB, BucketC}

\* str.strip() of a string: without its leading and trailing whitespace.
RECURSIVE LStrip(_)
LStrip(s) ==
    IF s # << >> /\ Head(s) = Space THEN LStrip(Tail(s)) ELSE s

RECURSIVE RStrip(_)
RStrip(s) ==
    IF s # << >> /\ s[Len(s)] = Space
    THEN RStrip(SubSeq(s, 1, Len(s) - 1))
    ELSE s

Strip(s) == RStrip(LStrip(s))

\* A validation that checks the type only.
ValidateTypeOnly(value) ==
    IF value = None THEN "TypeError" ELSE "ok"

\* _validate_str_param: "ok", or the error it raises, TypeError for a
\* value that is no str (None stands for any such value) and ValueError
\* for a str that strip() leaves empty.
validate_str_param(value) ==
    IF value = None THEN "TypeError"
    ELSE IF Strip(value) = << >> THEN "ValueError"
    ELSE "ok"

\* str.startswith
StartsWith(s, p) ==
    /\ Len(p) <= Len(s)
    /\ SubSeq(s, 1, Len(p)) = p

\* str.endswith('/')
EndsWithSlash(s) == s # << >> /\ s[Len(s)] = Slash

\* The order of keys in a listing: lexicographic on the character codes.
RECURSIVE LexLess(_, _)
LexLess(s, t) ==
    IF t = << >> THEN FALSE
    ELSE IF s = << >> THEN TRUE
    ELSE IF Head(s) # Head(t) THEN Head(s) < Head(t)
    ELSE LexLess(Tail(s), Tail(t))

-----------------------------------------------------------------------------
(* set_bucket_name *)

MaxSwitches == 1

\* The names a caller may pass: the two buckets, "", " " and a value
\* that is no str.
BucketArgs == Buckets \cup {EmptyStr, <<Space>>, None}

\* A switch that assigns the name without validating it.
SetBucketUnchecked(name) ==
    /\ switches < MaxSwitches
    /\ ~lock
    /\ switches' = switches + 1
    /\ bucket_name' = name
    /\ lock' = FALSE

\* AsyncS3Client.set_bucket_name(name), and the bucket_name setter of
\* SyncS3Client, which validates and assigns alike. Lock.acquire() of a
\* free lock does not suspend, so the validation, the acquire, the
\* assignment and the release are one step; an invalid name raises before
\* the lock is taken.
set_bucket_name(name) ==
    /\ switches < MaxSwitches
    /\ ~lock
    /\ switches' = switches + 1
    /\ bucket_name' =
          IF validate_str_param(name) = "ok" THEN name ELSE bucket_name
    /\ lock' = FALSE

-----------------------------------------------------------------------------
(* upload_file_multipart, of both clients *)

\* The sizes are scaled: one unit stands for 1 MiB / 5 of the program's
\* 5 * 1024 * 1024, and MaxParts for its 10_000.
min_part_size == 2
MaxParts == 2
MaxFileSize == 7

Clients == {"sync", "async"}
Outcomes == {"ok", "ClientError", "other"}
UploadIds == {"id1", "id2"}
ETags == {"e1", "e2"}

\* "f/k", and the object keys a caller may pass: None, "k2" and " ".
FilePath == <<102, 47, 107>>
ObjectKeyArgs == {None, <<107, 50>>, <<Space>>}

\* file_path.split('/')[-1]
RECURSIVE Basename(_)
Basename(s) ==
    IF \E i \in 1..Len(s) : s[i] = Slash
    THEN Basename(Tail(s))
    ELSE s

\* part_size = max(min_part_size, file_size // 10_000)
PartSize(size) ==
    IF size \div MaxParts > min_part_size
    THEN size \div MaxParts
    ELSE min_part_size

IdleUpload ==
    [client |-> "none", pc |-> "idle", file_size |-> 0, object_key |-> None,
     upload_id |-> "unbound", part_size |-> 0, parts |-> << >>,
     part_number |-> 0, offset |-> 0, chunk |-> 0, error |-> "none"]

\* A request as the log keeps it, with the outcome the transport gave.
Request(op, part, etag, outcome) ==
    [op |-> op, bucket |-> bucket_name, key |-> upload.object_key,
     upload_id |-> upload.upload_id, part |-> part, etag |-> etag,
     outcome |-> outcome]

\* What an action of the upload leaves alone.
UploadFrame == UNCHANGED <<bucket_name, lock, switches, bulkVars>>

\* A call that takes the plain path for a file of the minimum size too.
UploadCallAtMost(client, size, key) ==
    /\ upload.pc = "idle"
    /\ upload' = [upload EXCEPT !.client = client, !.file_size = size,
                                !.object_key = key,
                                !.pc = IF size <= min_part_size
                                       THEN "plain" ELSE "create"]
    /\ UNCHANGED <<requests, session>>
    /\ UploadFrame

\* The call: os.path.getsize, then the choice of the path by the size.
UploadCall(client, size, key) ==
    /\ upload.pc = "idle"
    /\ upload' = [upload EXCEPT !.client = client, !.file_size = size,
                                !.object_key = key,
                                !.pc = IF size < min_part_size
                                       THEN "plain" ELSE "create"]
    /\ UNCHANGED <<requests, session>>
    /\ UploadFrame

\* upload_file: the validation of object_key, then one upload request.
PlainUpload(outcome) ==
    /\ upload.pc = "plain"
    /\ LET key == IF upload.object_key = None
                  THEN Basename(FilePath) ELSE upload.object_key
       IN IF upload.object_key # None /\ validate_str_param(key) # "ok"
          THEN /\ upload' = [upload EXCEPT !.pc = "raised",
                                           !.error = "ValueError"]
               /\ UNCHANGED requests
          ELSE /\ upload' = [upload EXCEPT
                                !.object_key = key,
                                !.pc = IF outcome = "ok"
                                       THEN "returned" ELSE "raised",
                                !.error = IF outcome = "ok"
                                          THEN "none" ELSE outcome]
               /\ requests' = Append(requests,
                     [op |-> "upload_file", bucket |-> bucket_name,
                      key |-> key, upload_id |-> "unbound", part |-> 0,
                      etag |-> "none", outcome |-> outcome])
    /\ UNCHANGED session
    /\ UploadFrame

\* The except clause entered before upload_id is bound: evaluating the
\* arguments of abort_multipart_upload raises UnboundLocalError, and no
\* abort request is issued.
HandlerUnbound == "UnboundLocalError"

\* The start of the try block: object_key, then create_multipart_upload,
\* upload_id, part_size, parts = [] and part_number = 1.
CreateMultipartUpload(outcome, id) ==
    /\ upload.pc = "create"
    /\ LET key == IF upload.object_key = None
                  THEN Basename(FilePath) ELSE upload.object_key
       IN IF upload.object_key # None /\ validate_str_param(key) # "ok"
          THEN /\ upload' = [upload EXCEPT !.pc = "raised",
                                           !.error = "ValueError"]
               /\ UNCHANGED <<requests, session>>
          ELSE /\ requests' = Append(requests,
                     [op |-> "create", bucket |-> bucket_name, key |-> key,
                      upload_id |-> IF outcome = "ok" THEN id ELSE "unbound",
                      part |-> 0, etag |-> "none", outcome |-> outcome])
               /\ IF outcome = "ok"
                  THEN /\ upload' = [upload EXCEPT
                                       !.object_key = key,
                                       !.upload_id = id,
                                       !.part_size = PartSize(upload.file_size),
                                       !.parts = << >>,
                                       !.part_number = 1,
                                       !.pc = "read"]
                       /\ session' = "open"
                  ELSE /\ upload' = [upload EXCEPT
                                       !.object_key = key,
                                       !.pc = "raised",
                                       !.error = IF outcome = "ClientError"
                                                 THEN HandlerUnbound
                                                 ELSE outcome]
                       /\ UNCHANGED session
    /\ UploadFrame

\* One f.read(part_size): the next chunk, or the end of the loop when the
\* read returns no bytes. A failing read raises OSError, which the
\* except ClientError clause does not catch.
ReadChunk(outcome) ==
    /\ upload.pc = "read"
    /\ outcome # "ClientError"
    /\ LET left == upload.file_size - upload.offset
           n == IF left < upload.part_size THEN left ELSE upload.part_size
       IN upload' =
            IF outcome # "ok"
            THEN [upload EXCEPT !.pc = "raised", !.error = "OSError"]
            ELSE IF n = 0
            THEN [upload EXCEPT !.pc = "complete"]
            ELSE [upload EXCEPT !.pc = "part", !.chunk = n]
    /\ UNCHANGED <<requests, session>>
    /\ UploadFrame

\* What follows a failed remote call inside the try block: the handler of
\* ClientError goes on to abort, any other exception leaves the function.
AfterFailureSkipPart(outcome) ==
    [upload EXCEPT !.pc = "read", !.part_number = @ + 1,
                   !.offset = @ + upload.chunk]

AfterFailure(outcome) ==
    IF outcome = "ClientError"
    THEN [upload EXCEPT !.pc = "abort"]
    ELSE [upload EXCEPT !.pc = "raised", !.error = outcome]

\* An upload_part that records its ETag at the head of the list.
UploadPartPrepend(outcome, etag) ==
    /\ upload.pc = "part"
    /\ requests' = Append(requests,
          Request("upload_part", upload.part_number,
                  IF outcome = "ok" THEN etag ELSE "none", outcome))
    /\ upload' =
          IF outcome = "ok"
          THEN [upload EXCEPT
                  !.parts = <<[PartNumber |-> upload.part_number,
                               ETag |-> etag]>> \o @,
                  !.part_number = @ + 1,
                  !.offset = @ + upload.chunk,
                  !.pc = "read"]
          ELSE AfterFailure(outcome)
    /\ UNCHANGED session
    /\ UploadFrame

\* upload_part of the chunk read, and the record of its ETag.
UploadPart(outcome, etag) ==
    /\ upload.pc = "part"
    /\ requests' = Append(requests,
          Request("upload_part", upload.part_number,
                  IF outcome = "ok" THEN etag ELSE "none", outcome))
    /\ upload' =
          IF outcome = "ok"
          THEN [upload EXCEPT
                  !.parts = Append(@, [PartNumber |-> upload.part_number,
                                       ETag |-> etag]),
                  !.part_number = @ + 1,
                  !.offset = @ + upload.chunk,
                  !.pc = "read"]
          ELSE AfterFailure(outcome)
    /\ UNCHANGED session
    /\ UploadFrame

\* complete_multipart_upload with the parts recorded.
CompleteMultipartUpload(outcome) ==
    /\ upload.pc = "complete"
    /\ requests' = Append(requests, Request("complete", 0, "none", outcome))
    /\ IF outcome = "ok"
       THEN /\ upload' = [upload EXCEPT !.pc = "returned"]
            /\ session' = "completed"
       ELSE /\ upload' = AfterFailure(outcome)
            /\ UNCHANGED session
    /\ UploadFrame

\* The except ClientError clause: the print, then abort_multipart_upload;
\* the handler does not raise again, so the call returns normally.
AbortMultipartUpload(outcome) ==
    /\ upload.pc = "abort"
    /\ requests' = Append(requests, Request("abort", 0, "none", outcome))
    /\ IF outcome = "ok"
       THEN /\ upload' = [upload EXCEPT !.pc = "returned",
                                        !.error = "swallowed"]
            /\ session' = "aborted"
       ELSE /\ upload' = [upload EXCEPT !.pc = "raised", !.error = outcome]
            /\ UNCHANGED session
    /\ UploadFrame

InitUpload ==
    /\ bucket_name = BucketB
    /\ lock = FALSE
    /\ semaphore = 5
    /\ switches = 0
    /\ max_keys = 100
    /\ store = [b \in Buckets |-> << >>]
    /\ calls = << >>
    /\ tasks = << >>
    /\ upload = IdleUpload
    /\ requests = << >>
    /\ session = "none"

\* A bucket switch between two steps of an upload of the asynchronous
\* client, whose awaits let another coroutine run.
SwitchDuringUpload ==
    /\ upload.client = "async"
    /\ upload.pc \notin {"returned", "raised"}
    /\ \E name \in BucketArgs : set_bucket_name(name)
    /\ UNCHANGED <<bulkVars, uploadVars>>

NextUpload ==
    \/ \E client \in Clients, size \in 0..MaxFileSize, key \in ObjectKeyArgs :
          UploadCall(client, size, key)
    \/ \E outcome \in Outcomes : PlainUpload(outcome)
    \/ \E outcome \in Outcomes, id \in UploadIds :
          CreateMultipartUpload(outcome, id)
    \/ \E outcome \in Outcomes : ReadChunk(outcome)
    \/ \E outcome \in Outcomes, etag \in ETags : UploadPart(outcome, etag)
    \/ \E outcome \in Outcomes : CompleteMultipartUpload(outcome)
    \/ \E outcome \in Outcomes : AbortMultipartUpload(outcome)
    \/ SwitchDuringUpload

SpecUpload == InitUpload /\ [][NextUpload]_vars

-----------------------------------------------------------------------------
(* The storage service *)

\* The keys of the objects of a bucket.
KeysOf(bucket) == DOMAIN store[bucket]

\* The number of keys of a set that come before key k in the order of
\* listings.
Rank(S, k) == Cardinality({j \in S : LexLess(j, k)})

\* The keys of a set in ascending order.
SortKeys(S) ==
    [i \in 1..Cardinality(S) |-> CHOOSE k \in S : Rank(S, k) = i - 1]

\* The first n keys of a sorted listing.
Page(sorted, n) ==
    IF Len(sorted) <= n THEN sorted ELSE SubSeq(sorted, 1, n)

\* A listing that takes StartAfter as inclusive.
AfterInclusive(start_after, k) ==
    start_after = None \/ start_after = k \/ LexLess(start_after, k)

\* Whether key k comes after the StartAfter of a request (None: no
\* StartAfter was given).
After(start_after, k) ==
    start_after = None \/ LexLess(start_after, k)

\* A listing that takes no notice of the prefix.
ListEverything(bucket, prefix, start_after, n) ==
    Page(SortKeys({k \in KeysOf(bucket) : After(start_after, k)}), n)

\* list_objects_v2(Bucket, Prefix, StartAfter, MaxKeys): the keys of the
\* bucket that start with the prefix and come after StartAfter, in
\* ascending order, at most MaxKeys of them.
list_objects_v2(bucket, prefix, start_after, n) ==
    Page(SortKeys({k \in KeysOf(bucket) :
                     StartsWith(k, prefix) /\ After(start_after, k)}), n)

\* A function without one point of its domain.
Without(f, k) == [j \in DOMAIN f \ {k} |-> f[j]]

\* A function with one point set.
With(f, k, v) == [j \in DOMAIN f \cup {k} |-> IF j = k THEN v ELSE f[j]]

-----------------------------------------------------------------------------
(* get_keys_prefix and the bulk facade of the asynchronous client *)

MaxKeys == 100
MaxConcurrent == 5

BulkOutcomes == {"ok", "ClientError"}

IdleCall ==
    [op |-> "none", pc |-> "idle", phase |-> "none", prefix |-> EmptyStr,
     destination_prefix |-> EmptyStr, destination_bucket |-> EmptyStr,
     keep_original_name |-> FALSE, keys |-> << >>,
     req |-> [bucket |-> EmptyStr, start_after |-> None],
     listed |-> 0, pages |-> 0, list_error |-> "none",
     error |-> "none", bucket0 |-> EmptyStr, keys0 |-> {}]

\* What a call records of the moment it was made, for the claims only:
\* the active bucket and the keys that bucket held under the prefix.
\* (listed and pages count, for the claims only, the listing requests the
\* call has issued and the pages with contents it has received, and
\* list_error is the error of a listing request that failed.)
Called(rec, op, prefix) ==
    [rec EXCEPT !.op = op, !.bucket0 = bucket_name,
                !.keys0 = {k \in KeysOf(bucket_name) :
                             StartsWith(k, prefix)}]

CallEnded(c) == calls[c].pc \in {"returned", "raised"}

\* A call that raises.
Raised(rec, error) == [rec EXCEPT !.pc = "raised", !.error = error]

\* A get_keys_prefix that validates nothing.
StartListingUnchecked(rec, prefix) ==
    [rec EXCEPT !.pc = "list", !.keys = << >>,
                !.req = [bucket |-> bucket_name, start_after |-> None],
                !.listed = @ + 1]

\* The first lines of get_keys_prefix: the validation of a prefix that is
\* not "" (TypeError for a value that is not a str, ValueError for a
\* blank one), keys = [] and the first listing request, which names the
\* bucket active now.
StartListing(rec, prefix) ==
    IF prefix # EmptyStr /\ validate_str_param(prefix) # "ok"
    THEN Raised(rec, validate_str_param(prefix))
    ELSE [rec EXCEPT !.pc = "list", !.keys = << >>,
                     !.req = [bucket |-> bucket_name, start_after |-> None],
                     !.listed = @ + 1]

\* What an action of the facade leaves alone.
BulkFrame == UNCHANGED <<bucket_name, lock, switches, max_keys, uploadVars>>

\* get_keys_prefix(prefix), of both clients.
get_keys_prefix(c, prefix) ==
    /\ calls[c].pc = "idle"
    /\ calls' = [calls EXCEPT ![c] =
          StartListing([Called(calls[c], "get_keys_prefix", prefix)
                          EXCEPT !.prefix = prefix], prefix)]
    /\ UNCHANGED <<semaphore, store, tasks>>
    /\ BulkFrame

\* The index of the last '.' of a string, 0 when it has none.
LastDot(s) ==
    LET dots == {i \in 1..Len(s) : s[i] = Dot}
    IN IF dots = {} THEN 0 ELSE CHOOSE i \in dots : \A j \in dots : j <= i

\* "_copy."
CopySuffix == <<95, 99, 111, 112, 121, 46>>

\* A destination key that splits at the first '.': obj.split('.', 1).
DestinationKeyFirstDot(destination_prefix, obj, keep) ==
    LET dots == {i \in 1..Len(obj) : obj[i] = Dot}
        first == CHOOSE i \in dots : \A j \in dots : i <= j
    IN IF keep THEN destination_prefix \o obj
       ELSE IF dots = {} THEN None
       ELSE destination_prefix \o SubSeq(obj, 1, first - 1)
            \o CopySuffix \o SubSeq(obj, first + 1, Len(obj))

\* The destination key of one source key in copy_object_prefix:
\* obj.rsplit('.', 1) gives [stem, ext], or [obj] when obj has no '.', and
\* then source_list[1] raises IndexError.
DestinationKey(destination_prefix, obj, keep) ==
    IF keep THEN destination_prefix \o obj
    ELSE IF LastDot(obj) = 0 THEN None
    ELSE destination_prefix \o SubSeq(obj, 1, LastDot(obj) - 1)
         \o CopySuffix \o SubSeq(obj, LastDot(obj) + 1, Len(obj))

\* A head of copy_object_prefix that validates nothing.
CopyPrefixArgsUnchecked(prefix, destination_prefix, destination_bucket, keep) ==
    "ok"

\* The validations at the head of copy_object_prefix: "ok" or the error.
CopyPrefixArgs(prefix, destination_prefix, destination_bucket, keep) ==
    IF validate_str_param(prefix) # "ok" THEN "ValueError"
    ELSE IF destination_prefix = None /\ keep THEN "ValueError"
    ELSE IF /\ destination_prefix # None
            /\ \/ validate_str_param(destination_prefix) # "ok"
               \/ ~EndsWithSlash(destination_prefix)
         THEN "ValueError"
    ELSE IF /\ destination_bucket # None
            /\ validate_str_param(destination_bucket) # "ok"
         THEN "ValueError"
    ELSE "ok"

\* copy_object_prefix up to its first await: the validations, the
\* defaults of destination_prefix and destination_bucket, and the first
\* listing request of get_keys_prefix(prefix).
StartCopyPrefix(rec, prefix, destination_prefix, destination_bucket, keep) ==
    IF CopyPrefixArgs(prefix, destination_prefix, destination_bucket, keep)
       # "ok"
    THEN Raised(rec, "ValueError")
    ELSE StartListing(
           [rec EXCEPT !.phase = "copy",
                       !.prefix = prefix,
                       !.destination_prefix =
                           IF destination_prefix = None
                           THEN EmptyStr ELSE destination_prefix,
                       !.destination_bucket =
                           IF destination_bucket = None
                           THEN bucket_name ELSE destination_bucket,
                       !.keep_original_name = keep], prefix)

\* copy_object_prefix(prefix, destination_prefix, destination_bucket,
\* keep_original_name)
copy_object_prefix(c, prefix, destination_prefix, destination_bucket, keep) ==
    /\ calls[c].pc = "idle"
    /\ calls' = [calls EXCEPT ![c] =
          StartCopyPrefix(Called(calls[c], "copy_object_prefix", prefix),
                          prefix, destination_prefix, destination_bucket,
                          keep)]
    /\ UNCHANGED <<semaphore, store, tasks>>
    /\ BulkFrame

\* delete_object_prefix up to its first await.
StartDeletePrefix(rec, prefix) ==
    IF validate_str_param(prefix) # "ok"
    THEN Raised(rec, "ValueError")
    ELSE StartListing([rec EXCEPT !.phase = "delete", !.prefix = prefix],
                      prefix)

\* delete_object_prefix(prefix)
delete_object_prefix(c, prefix) ==
    /\ calls[c].pc = "idle"
    /\ calls' = [calls EXCEPT ![c] =
          StartDeletePrefix(Called(calls[c], "delete_object_prefix", prefix),
                            prefix)]
    /\ UNCHANGED <<semaphore, store, tasks>>
    /\ BulkFrame

\* move_object_prefix(prefix, folder_name) up to its first await: its
\* validations, then copy_object_prefix(prefix, folder_name,
\* keep_original_name=True).
move_object_prefix(c, prefix, folder_name) ==
    /\ calls[c].pc = "idle"
    /\ LET rec == Called(calls[c], "move_object_prefix", prefix)
       IN calls' = [calls EXCEPT ![c] =
            IF \/ validate_str_param(prefix) # "ok"
               \/ validate_str_param(folder_name) # "ok"
               \/ ~EndsWithSlash(folder_name)
            THEN Raised(rec, "ValueError")
            ELSE StartCopyPrefix(rec, prefix, folder_name, None, TRUE)]
    /\ UNCHANGED <<semaphore, store, tasks>>
    /\ BulkFrame

\* The task of one key (issued: whether its copy or delete request has
\* been issued, for the claims only): asyncio.create_task(self.copy_object(...)) or
\* asyncio.create_task(self.delete_object(...)).
NewTask(kind, key, destination_key, destination_bucket) ==
    [kind |-> kind, pc |-> "created", key |-> key,
     destination_key |-> destination_key,
     destination_bucket |-> destination_bucket,
     source_bucket |-> EmptyStr, keys |-> << >>,
     req |-> [bucket |-> EmptyStr, start_after |-> None],
     issued |-> FALSE]

TaskId(c, phase, i) == <<c, phase, i>>

\* The tasks of the current phase of call c.
TasksOf(c, phase) == {t \in DOMAIN tasks : t[1] = c /\ t[2] = phase}

TaskEnded(t) == tasks[t].pc \in {"done", "failed"}

\* The tasks a call creates for the keys it has enumerated.
CreatedTasks(c, rec, keys) ==
    [t \in {TaskId(c, rec.phase, i) : i \in 1..Len(keys)} |->
       IF rec.phase = "copy"
       THEN NewTask("copy", keys[t[3]],
                    DestinationKey(rec.destination_prefix, keys[t[3]],
                                   rec.keep_original_name),
                    rec.destination_bucket)
       ELSE NewTask("delete", keys[t[3]], None, None)]

\* What a call does when the gather of its tasks has returned: the copy
\* phase of move_object_prefix goes on to delete_object_prefix(prefix),
\* anything else returns.
AfterGather(rec) ==
    IF rec.op = "move_object_prefix" /\ rec.phase = "copy"
    THEN StartDeletePrefix([rec EXCEPT !.keys = << >>], rec.prefix)
    ELSE [rec EXCEPT !.pc = "returned"]

\* An enumeration whose destination keys are computed as the tasks are
\* created: the keys before the first key without '.' have their task
\* when IndexError is raised.
AfterEnumerationLazy(c, rec, keys) ==
    LET bad == {i \in 1..Len(keys) :
                  DestinationKey(rec.destination_prefix, keys[i],
                                 rec.keep_original_name) = None}
        first == CHOOSE i \in bad : \A j \in bad : i <= j
    IN IF rec.op = "get_keys_prefix"
       THEN /\ calls' = [calls EXCEPT ![c] = [rec EXCEPT !.pc = "returned",
                                                          !.keys = keys]]
            /\ UNCHANGED tasks
       ELSE IF rec.op = "copy_file_prefix"
       THEN /\ calls' = [calls EXCEPT ![c] =
                           [rec EXCEPT !.pc = IF keys = << >> THEN "returned"
                                              ELSE "loop",
                                       !.keys = keys]]
            /\ UNCHANGED tasks
       ELSE IF rec.phase = "copy" /\ bad # {}
       THEN /\ calls' = [calls EXCEPT ![c] =
                           Raised([rec EXCEPT !.keys = keys], "IndexError")]
            /\ tasks' = CreatedTasks(c, rec, SubSeq(keys, 1, first - 1))
                           @@ tasks
       ELSE IF keys = << >>
       THEN /\ calls' = [calls EXCEPT ![c] = AfterGather(rec)]
            /\ UNCHANGED tasks
       ELSE /\ calls' = [calls EXCEPT ![c] = [rec EXCEPT !.pc = "gather",
                                                          !.keys = keys]]
            /\ tasks' = CreatedTasks(c, rec, keys) @@ tasks

\* What a call does with the keys get_keys_prefix returned. The
\* copy_file_prefix of the synchronous client enters its loop over them.
\* In the copy phase of the asynchronous client the destination keys are
\* computed first, and a key without '.' raises IndexError there; then
\* one task per key is created and the call awaits their gather, which
\* returns at once when there is none.
AfterEnumeration(c, rec, keys) ==
    IF rec.op = "get_keys_prefix"
    THEN /\ calls' = [calls EXCEPT ![c] = [rec EXCEPT !.pc = "returned",
                                                       !.keys = keys]]
         /\ UNCHANGED tasks
    ELSE IF rec.op = "copy_file_prefix"
    THEN /\ calls' = [calls EXCEPT ![c] =
                        [rec EXCEPT !.pc = IF keys = << >> THEN "returned"
                                           ELSE "loop",
                                    !.keys = keys]]
         /\ UNCHANGED tasks
    ELSE IF /\ rec.phase = "copy"
            /\ \E i \in 1..Len(keys) :
                  DestinationKey(rec.destination_prefix, keys[i],
                                 rec.keep_original_name) = None
    THEN /\ calls' = [calls EXCEPT ![c] =
                        Raised([rec EXCEPT !.keys = keys], "IndexError")]
         /\ UNCHANGED tasks
    ELSE IF keys = << >>
    THEN /\ calls' = [calls EXCEPT ![c] = AfterGather(rec)]
         /\ UNCHANGED tasks
    ELSE /\ calls' = [calls EXCEPT ![c] = [rec EXCEPT !.pc = "gather",
                                                       !.keys = keys]]
         /\ tasks' = CreatedTasks(c, rec, keys) @@ tasks

\* A listing request that failed, taken as the end of the listing: the
\* keys accumulated so far are used.
ListingFailureKeepsKeys(c, rec, outcome) ==
    AfterEnumeration(c, [rec EXCEPT !.list_error = outcome], rec.keys)

\* A listing request that failed: the ClientError leaves get_keys_prefix
\* and the function that awaited it, which catch nothing.
ListingFailure(c, rec, outcome) ==
    /\ calls' = [calls EXCEPT ![c] =
                   Raised([rec EXCEPT !.list_error = outcome], outcome)]
    /\ UNCHANGED tasks

\* The loop of get_keys_prefix: the response to the listing request in
\* flight. A page with contents is appended to keys and the next request
\* is issued, with StartAfter = keys[-1] and the bucket active now; an
\* empty page ends the loop. A failed request raises.
ListPage(c, outcome) ==
    /\ calls[c].pc = "list"
    /\ LET rec == calls[c]
           page == list_objects_v2(rec.req.bucket, rec.prefix,
                                   rec.req.start_after, max_keys)
           keys == rec.keys \o page
       IN IF outcome # "ok"
          THEN ListingFailure(c, rec, outcome)
          ELSE IF page # << >>
          THEN /\ calls' = [calls EXCEPT ![c] =
                    [rec EXCEPT !.keys = keys,
                                !.req = [bucket |-> bucket_name,
                                         start_after |-> keys[Len(keys)]],
                                !.listed = @ + 1, !.pages = @ + 1]]
               /\ UNCHANGED tasks
          ELSE AfterEnumeration(c, rec, rec.keys)
    /\ UNCHANGED <<semaphore, store>>
    /\ BulkFrame

\* The tasks of a gather take their first step in the order of their
\* creation: the event loop runs its ready callbacks first in, first out.
FirstToStart(t) ==
    \A u \in DOMAIN tasks :
        (u[1] = t[1] /\ u[2] = t[2] /\ u[3] < t[3])
        => tasks[u].pc # "created"

\* Semaphore.locked() is false: acquire() returns without suspending.
SemaphoreAlwaysFree == TRUE

SemaphoreFree == semaphore > 0

\* source_key.split('.'): the pieces of a string between its dots.
RECURSIVE SplitDot(_)
SplitDot(s) ==
    LET dots == {i \in 1..Len(s) : s[i] = Dot}
        d == CHOOSE i \in dots : \A j \in dots : i <= j
    IN IF dots = {} THEN <<s>>
       ELSE <<SubSeq(s, 1, d - 1)>> \o SplitDot(SubSeq(s, d + 1, Len(s)))

\* The default destination key of copy_object:
\* f"{source_list[0]}_copy.{source_list[1]}", None for the IndexError of
\* a source key without '.'.
DefaultCopyKey(source_key) ==
    LET source_list == SplitDot(source_key)
    IN IF Len(source_list) < 2 THEN None
       ELSE source_list[1] \o CopySuffix \o source_list[2]

\* copy_object up to "async with self.semaphore": the validations, the
\* defaults, copy_source with the bucket active now, and the acquire,
\* which takes a permit at once when one is free and waits otherwise.
CopyBegin(rec) ==
    IF validate_str_param(rec.key) # "ok" THEN [rec EXCEPT !.pc = "failed"]
    ELSE IF rec.destination_key = None /\ DefaultCopyKey(rec.key) = None
    THEN [rec EXCEPT !.pc = "failed"]
    ELSE IF /\ rec.destination_key # None
            /\ validate_str_param(rec.destination_key) # "ok"
    THEN [rec EXCEPT !.pc = "failed"]
    ELSE IF /\ rec.destination_bucket # None
            /\ validate_str_param(rec.destination_bucket) # "ok"
    THEN [rec EXCEPT !.pc = "failed"]
    ELSE [rec EXCEPT
            !.destination_key =
                IF @ = None THEN DefaultCopyKey(rec.key) ELSE @,
            !.destination_bucket = IF @ = None THEN bucket_name ELSE @,
            !.source_bucket = bucket_name,
            !.pc = IF SemaphoreFree THEN "inflight" ELSE "waiting",
            !.issued = SemaphoreFree]

\* The first step of a copy task.
CopyStart(t) ==
    /\ t \in DOMAIN tasks
    /\ tasks[t].kind = "copy"
    /\ tasks[t].pc = "created"
    /\ FirstToStart(t)
    /\ tasks' = [tasks EXCEPT ![t] = CopyBegin(tasks[t])]
    /\ semaphore' = IF CopyBegin(tasks[t]).pc = "inflight"
                    THEN semaphore - 1 ELSE semaphore
    /\ UNCHANGED <<store, calls>>
    /\ BulkFrame

\* copy_object(source_key, destination_key, destination_bucket) called
\* by the user, as the i-th such call: the same coroutine as a task of
\* copy_object_prefix runs, awaited by no gather.
copy_object(i, source_key, destination_key, destination_bucket) ==
    /\ TaskId(0, "copy", i) \notin DOMAIN tasks
    /\ \A j \in 1..(i - 1) : TaskId(0, "copy", j) \in DOMAIN tasks
    /\ LET rec == CopyBegin(NewTask("copy", source_key, destination_key,
                                    destination_bucket))
       IN /\ tasks' = (TaskId(0, "copy", i) :> rec) @@ tasks
          /\ semaphore' = IF rec.pc = "inflight"
                          THEN semaphore - 1 ELSE semaphore
    /\ UNCHANGED <<store, calls>>
    /\ BulkFrame

\* A waiting copy task is given a permit.
SemaphoreAcquire(t) ==
    /\ t \in DOMAIN tasks
    /\ tasks[t].pc = "waiting"
    /\ SemaphoreFree
    /\ tasks' = [tasks EXCEPT ![t].pc = "inflight", ![t].issued = TRUE]
    /\ semaphore' = semaphore - 1
    /\ UNCHANGED <<store, calls>>
    /\ BulkFrame

\* The permits after the "async with self.semaphore" block is left.
Release == semaphore + 1

\* A response to s3.copy_object whose permit is given back only when the
\* copy succeeded.
CopyResponseLeaky(t, outcome) ==
    /\ t \in DOMAIN tasks
    /\ tasks[t].kind = "copy"
    /\ tasks[t].pc = "inflight"
    /\ LET rec == tasks[t]
           found == rec.key \in KeysOf(rec.source_bucket)
       IN IF outcome = "ok" /\ found
          THEN /\ store' = [store EXCEPT ![rec.destination_bucket] =
                     With(@, rec.destination_key,
                          store[rec.source_bucket][rec.key])]
               /\ tasks' = [tasks EXCEPT ![t].pc = "done"]
               /\ semaphore' = semaphore + 1
          ELSE /\ tasks' = [tasks EXCEPT ![t].pc = "failed"]
               /\ UNCHANGED <<store, semaphore>>
    /\ UNCHANGED calls
    /\ BulkFrame

\* The response to s3.copy_object: the object is written under the
\* destination key of the destination bucket; a source key that the
\* source bucket does not hold is a remote error. The permit is released
\* on both ways out.
CopyResponse(t, outcome) ==
    /\ t \in DOMAIN tasks
    /\ tasks[t].kind = "copy"
    /\ tasks[t].pc = "inflight"
    /\ LET rec == tasks[t]
           found == rec.key \in KeysOf(rec.source_bucket)
       IN IF outcome = "ok" /\ found
          THEN /\ store' = [store EXCEPT ![rec.destination_bucket] =
                     With(@, rec.destination_key,
                          store[rec.source_bucket][rec.key])]
               /\ tasks' = [tasks EXCEPT ![t].pc = "done"]
          ELSE /\ tasks' = [tasks EXCEPT ![t].pc = "failed"]
               /\ UNCHANGED store
    /\ semaphore' = Release
    /\ UNCHANGED calls
    /\ BulkFrame

\* The first step of a delete task: delete_object validates the key and
\* is_object_exist starts get_keys_prefix(), whose first listing request
\* names the bucket active now.
DeleteStart(t) ==
    /\ t \in DOMAIN tasks
    /\ tasks[t].kind = "delete"
    /\ tasks[t].pc = "created"
    /\ FirstToStart(t)
    /\ tasks' = [tasks EXCEPT ![t] =
          IF validate_str_param(tasks[t].key) # "ok"
          THEN [@ EXCEPT !.pc = "failed"]
          ELSE [@ EXCEPT !.pc = "list", !.keys = << >>,
                         !.req = [bucket |-> bucket_name,
                                  start_after |-> None]]]
    /\ UNCHANGED <<semaphore, store, calls>>
    /\ BulkFrame

\* The listing loop of is_object_exist inside a delete task. When it
\* ends, a key that was listed is deleted by s3.delete_object on the
\* bucket active now, and a key that was not listed ends the task.
DeleteListPage(t, outcome) ==
    /\ t \in DOMAIN tasks
    /\ tasks[t].pc = "list"
    /\ LET rec == tasks[t]
           page == list_objects_v2(rec.req.bucket, EmptyStr,
                                   rec.req.start_after, max_keys)
           keys == rec.keys \o page
       IN tasks' = [tasks EXCEPT ![t] =
            IF outcome # "ok"
            THEN [rec EXCEPT !.pc = "failed", !.keys = << >>]
            ELSE IF page # << >>
            THEN [rec EXCEPT !.keys = keys,
                             !.req = [bucket |-> bucket_name,
                                      start_after |-> keys[Len(keys)]]]
            ELSE IF \E i \in 1..Len(rec.keys) : rec.keys[i] = rec.key
            THEN [rec EXCEPT !.pc = "deleting", !.keys = << >>,
                             !.issued = TRUE,
                             !.req = [bucket |-> bucket_name,
                                      start_after |-> None]]
            ELSE [rec EXCEPT !.pc = "done", !.keys = << >>]]
    /\ UNCHANGED <<semaphore, store, calls>>
    /\ BulkFrame

\* delete_object(object_key) called by the user, as the i-th such call:
\* the same coroutine as a task of delete_object_prefix runs, awaited by
\* no gather.
delete_object(i, object_key) ==
    /\ TaskId(0, "delete", i) \notin DOMAIN tasks
    /\ \A j \in 1..(i - 1) : TaskId(0, "delete", j) \in DOMAIN tasks
    /\ LET rec == NewTask("delete", object_key, None, None)
       IN tasks' = (TaskId(0, "delete", i) :>
                      IF validate_str_param(object_key) # "ok"
                      THEN [rec EXCEPT !.pc = "failed"]
                      ELSE [rec EXCEPT !.pc = "list",
                                       !.req = [bucket |-> bucket_name,
                                                start_after |-> None]])
                   @@ tasks
    /\ UNCHANGED <<semaphore, store, calls>>
    /\ BulkFrame

\* Another actor of the storage deletes an object of the active bucket
\* while a call has its tasks running.
OtherActorDeletes(k) ==
    /\ \E c \in DOMAIN calls : calls[c].pc = "gather"
    /\ k \in KeysOf(bucket_name)
    /\ store' = [store EXCEPT ![bucket_name] = Without(@, k)]
    /\ UNCHANGED <<semaphore, calls, tasks>>
    /\ BulkFrame

\* A deleteObject that the service refuses for a key it does not hold.
DeleteResponseStrict(t, outcome) ==
    /\ t \in DOMAIN tasks
    /\ tasks[t].pc = "deleting"
    /\ IF outcome = "ok" /\ tasks[t].key \in KeysOf(tasks[t].req.bucket)
       THEN /\ store' = [store EXCEPT ![tasks[t].req.bucket] =
                  Without(@, tasks[t].key)]
            /\ tasks' = [tasks EXCEPT ![t].pc = "done"]
       ELSE /\ tasks' = [tasks EXCEPT ![t].pc = "failed"]
            /\ UNCHANGED store
    /\ UNCHANGED <<semaphore, calls>>
    /\ BulkFrame

\* The response to s3.delete_object: the key is gone from the bucket the
\* request named (deleting an absent key succeeds).
DeleteResponse(t, outcome) ==
    /\ t \in DOMAIN tasks
    /\ tasks[t].pc = "deleting"
    /\ IF outcome = "ok"
       THEN /\ store' = [store EXCEPT ![tasks[t].req.bucket] =
                  Without(@, tasks[t].key)]
            /\ tasks' = [tasks EXCEPT ![t].pc = "done"]
       ELSE /\ tasks' = [tasks EXCEPT ![t].pc = "failed"]
            /\ UNCHANGED store
    /\ UNCHANGED <<semaphore, calls>>
    /\ BulkFrame

\* Whether asyncio.gather(*tasks) has a result for the call awaiting it:
\* every task has finished and none has raised.
GatherAnyDone(c) ==
    \E t \in TasksOf(c, calls[c].phase) : tasks[t].pc = "done"

GatherHasResult(c) ==
    \A t \in TasksOf(c, calls[c].phase) : tasks[t].pc = "done"

\* The gather of the call returns: every task is done.
GatherReturn(c) ==
    /\ calls[c].pc = "gather"
    /\ GatherHasResult(c)
    /\ calls' = [calls EXCEPT ![c] = AfterGather(calls[c])]
    /\ UNCHANGED <<semaphore, store, tasks>>
    /\ BulkFrame

\* What the tasks become when the gather raises: asyncio.gather without
\* return_exceptions propagates the first exception to the awaiting call
\* and leaves the other tasks running.
SiblingsCancelled(c) ==
    [t \in DOMAIN tasks |->
       IF t[1] = c /\ ~TaskEnded(t)
       THEN [tasks[t] EXCEPT !.pc = "cancelled"] ELSE tasks[t]]

SiblingsAfterRaise(c) == tasks

\* The gather of the call raises: a task has failed.
GatherRaise(c) ==
    /\ calls[c].pc = "gather"
    /\ \E t \in TasksOf(c, calls[c].phase) : tasks[t].pc = "failed"
    /\ calls' = [calls EXCEPT ![c] = Raised(calls[c], "ClientError")]
    /\ tasks' = SiblingsAfterRaise(c)
    /\ UNCHANGED <<semaphore, store>>
    /\ BulkFrame

\* What a bulk call gives its caller when it has ended, as a list of
\* outcomes: the functions return None, which holds no outcome, or raise
\* the one exception that the gather propagated.
OutcomesGiven(c) ==
    IF calls[c].pc = "raised" THEN <<calls[c].error>> ELSE << >>

\* A bucket switch while calls of the facade are in flight.
SwitchBucket ==
    /\ \E name \in BucketArgs : set_bucket_name(name)
    /\ UNCHANGED <<bulkVars, uploadVars>>

-----------------------------------------------------------------------------
(* The specification of get_keys_prefix alone, for any page size *)

MaxKeyLen == 2
MaxObjects == 3
MaxPage == 3

\* The strings of "a" and "b" of a length up to n.
StringsUpTo(n) == UNION {[1..m -> {97, 98}] : m \in 0..n}

ListKeys == StringsUpTo(MaxKeyLen) \ {EmptyStr}
ListPrefixes == StringsUpTo(MaxKeyLen) \cup {<<Space>>, None}

\* The objects of a bucket that holds the keys S: each holds a content of
\* its own, named after the bucket and the key it was first stored under.
Objects(bucket, S) == [k \in S |-> <<bucket, k>>]

\* The state after __init__, with nothing in progress.
Constructed ==
    /\ bucket_name = BucketB
    /\ lock = FALSE
    /\ semaphore = MaxConcurrent
    /\ switches = 0
    /\ tasks = << >>
    /\ upload = IdleUpload
    /\ requests = << >>
    /\ session = "none"

InitList ==
    /\ Constructed
    /\ max_keys \in 1..MaxPage
    /\ \E S \in SUBSET ListKeys :
          /\ Cardinality(S) <= MaxObjects
          /\ store = [b \in Buckets |->
                        IF b = BucketB THEN Objects(b, S) ELSE << >>]
    /\ calls = [c \in {1} |-> IdleCall]

NextList ==
    \/ \E prefix \in ListPrefixes : get_keys_prefix(1, prefix)
    \/ \E outcome \in BulkOutcomes : ListPage(1, outcome)

SpecList == InitList /\ [][NextList]_vars

\* The same, where every listing request is answered: the awaited
\* list_objects_v2 returns or fails.
FairSpecList == SpecList /\ WF_vars(NextList)

-----------------------------------------------------------------------------
(* The specification of the bulk facade: one call, its tasks, and bucket   *)
(* switches in between                                                     *)

NumKeys == 3

\* "a1.x", "a2.x", ...: the keys under the prefix "a".
BulkKey(i) == <<97, 48 + i, Dot, 120>>

\* "d.z": a key under no prefix the calls use.
Outsider == <<100, Dot, 122>>

\* "d/c.x": the destination of a copy_object called on its own.
CopyOfKey == <<100, Slash, 99, Dot, 120>>

PrefixA == <<97>>
FolderA == <<97, Slash>>
FolderD == <<100, Slash>>
NoFolder == <<100>>

\* The arguments of the calls: <<prefix, destination_prefix,
\* destination_bucket, keep_original_name>> of copy_object_prefix and
\* <<prefix, folder_name>> of move_object_prefix, valid and invalid.
CopyPrefixCalls ==
    {<<PrefixA, FolderD, None, TRUE>>, <<PrefixA, None, None, FALSE>>,
     <<PrefixA, FolderD, BucketC, FALSE>>, <<PrefixA, None, None, TRUE>>,
     <<PrefixA, NoFolder, None, FALSE>>}
MovePrefixCalls == {<<PrefixA, FolderD>>, <<PrefixA, NoFolder>>}
DeletePrefixCalls == {PrefixA, <<Space>>}

CallIds == {1}

\* A bucket "b" that holds n keys under "a" and one elsewhere, and a
\* bucket "c" that holds the first of these keys with another content.
StoreOf(n) ==
    [b \in Buckets |->
       IF b = BucketB
       THEN Objects(b, {BulkKey(i) : i \in 1..n} \cup {Outsider})
       ELSE Objects(b, {BulkKey(1)})]

Init ==
    /\ Constructed
    /\ max_keys = MaxKeys
    /\ \E n \in 0..NumKeys : store = StoreOf(n)
    /\ calls = [c \in CallIds |-> IdleCall]

\* The steps of the calls in progress.
CallProgress ==
    \/ \E c \in DOMAIN calls, outcome \in BulkOutcomes : ListPage(c, outcome)
    \/ \E c \in DOMAIN calls : GatherReturn(c)
    \/ \E c \in DOMAIN calls : GatherRaise(c)

\* The steps of the copy tasks that hold or need no permit.
CopyProgress ==
    \/ \E t \in DOMAIN tasks : CopyStart(t)
    \/ \E t \in DOMAIN tasks, outcome \in BulkOutcomes :
          CopyResponse(t, outcome)

\* The steps of the delete tasks.
DeleteProgress ==
    \/ \E t \in DOMAIN tasks : DeleteStart(t)
    \/ \E t \in DOMAIN tasks, outcome \in BulkOutcomes :
          DeleteListPage(t, outcome)
    \/ \E t \in DOMAIN tasks, outcome \in BulkOutcomes :
          DeleteResponse(t, outcome)

Progress ==
    \/ CallProgress
    \/ CopyProgress
    \/ DeleteProgress

Next ==
    \/ \E c \in CallIds, a \in CopyPrefixCalls :
          copy_object_prefix(c, a[1], a[2], a[3], a[4])
    \/ \E c \in CallIds, a \in MovePrefixCalls :
          move_object_prefix(c, a[1], a[2])
    \/ \E c \in CallIds, prefix \in DeletePrefixCalls :
          delete_object_prefix(c, prefix)
    \/ \E c \in CallIds : get_keys_prefix(c, PrefixA)
    \/ Progress

Spec == Init /\ [][Next]_vars

\* The same, where the event loop goes on running what is ready and
\* every remote call returns or fails.
FairSpec == Spec /\ WF_vars(Next)

\* The same with set_bucket_name called while the call is in progress.
SwitchDuringCall ==
    /\ \E c \in DOMAIN calls : calls[c].pc \notin {"idle"}
    /\ SwitchBucket

NextSwitch ==
    \/ Next
    \/ SwitchDuringCall

SwitchKeys == 2

InitSwitch ==
    /\ Constructed
    /\ max_keys = MaxKeys
    /\ \E n \in 1..SwitchKeys : store = StoreOf(n)
    /\ calls = [c \in CallIds |-> IdleCall]

SpecSwitch == InitSwitch /\ [][NextSwitch]_vars

\* A move into a folder whose name starts with the prefix moved.
OverlapKeys == 2

InitOverlap ==
    /\ Constructed
    /\ max_keys = MaxKeys
    /\ \E n \in 1..OverlapKeys : store = StoreOf(n)
    /\ calls = [c \in CallIds |-> IdleCall]

NextOverlap ==
    \/ \E c \in CallIds : move_object_prefix(c, PrefixA, FolderA)
    \/ Progress

SpecOverlap == InitOverlap /\ [][NextOverlap]_vars

-----------------------------------------------------------------------------
(* The specification of the fan-out: more keys than permits, and calls     *)
(* that run concurrently                                                   *)

FanExtra == 1

\* One call over more keys than the semaphore has permits, or two
\* concurrent calls that have more than that between them.
InitCopies ==
    /\ Constructed
    /\ max_keys = MaxKeys
    /\ \/ /\ store = StoreOf(MaxConcurrent + FanExtra)
          /\ calls = [c \in {1} |-> IdleCall]
       \/ /\ store = StoreOf((MaxConcurrent + 1) \div 2)
          /\ calls = [c \in {1, 2} |-> IdleCall]

\* copy_object_prefix, whose steps the copy phase of move_object_prefix
\* shares, and copy_object called on its own.
NextCopies ==
    \/ \E c \in DOMAIN calls :
          copy_object_prefix(c, PrefixA, FolderD, None, TRUE)
    \/ copy_object(1, BulkKey(1), CopyOfKey, None)
    \/ \E t \in DOMAIN tasks : SemaphoreAcquire(t)
    \/ CallProgress
    \/ CopyProgress

SpecCopies == InitCopies /\ [][NextCopies]_vars

\* The same, where the event loop goes on running what is ready and
\* every remote copy call returns or fails.
FairSpecCopies == SpecCopies /\ WF_vars(NextCopies)

\* delete_object_prefix over more keys than the semaphore has permits,
\* with remote calls that succeed.
InitDeletes ==
    /\ Constructed
    /\ max_keys = MaxKeys
    /\ store = StoreOf(MaxConcurrent + FanExtra)
    /\ calls = [c \in {1} |-> IdleCall]

NextDeletes ==
    \/ delete_object_prefix(1, PrefixA)
    \/ ListPage(1, "ok")
    \/ GatherReturn(1)
    \/ \E t \in DOMAIN tasks : DeleteStart(t)
    \/ \E t \in DOMAIN tasks : DeleteListPage(t, "ok")
    \/ \E t \in DOMAIN tasks : DeleteResponse(t, "ok")

SpecDeletes == InitDeletes /\ [][NextDeletes]_vars

-----------------------------------------------------------------------------
(* The specification of deletes of keys that are not there: the remote    *)
(* calls succeed, and another actor deletes objects meanwhile              *)

AbsentKeys == 2

\* "a9.x": a key under the prefix "a" that no bucket holds.
AbsentKey == <<97, 57, Dot, 120>>

InitAbsent ==
    /\ Constructed
    /\ max_keys = MaxKeys
    /\ \E n \in 1..AbsentKeys : store = StoreOf(n)
    /\ calls = [c \in {1} |-> IdleCall]

NextAbsent ==
    \/ delete_object_prefix(1, PrefixA)
    \/ \E key \in {AbsentKey, BulkKey(1)} : delete_object(1, key)
    \/ \E i \in 1..AbsentKeys : OtherActorDeletes(BulkKey(i))
    \/ ListPage(1, "ok")
    \/ GatherReturn(1)
    \/ \E t \in DOMAIN tasks : DeleteStart(t)
    \/ \E t \in DOMAIN tasks : DeleteListPage(t, "ok")
    \/ \E t \in DOMAIN tasks : DeleteResponse(t, "ok")

SpecAbsent == InitAbsent /\ [][NextAbsent]_vars

-----------------------------------------------------------------------------
(* copy_file_prefix of the synchronous client, and the specification of   *)
(* the names of the copies: keys with several dots and with none          *)

\* The destination key of one source key in copy_file_prefix:
\* obj.split(".") gives every piece between the dots, and the key is
\* destination_prefix + f"{source_list[0]}_copy.{source_list[1]}", with
\* IndexError (None) when obj has no '.'.
SyncDestinationKey(destination_prefix, obj) ==
    LET source_list == SplitDot(obj)
    IN IF Len(source_list) < 2 THEN None
       ELSE destination_prefix \o source_list[1] \o CopySuffix
            \o source_list[2]

\* The validations at the head of copy_file_prefix: "ok" or the error.
CopyFilePrefixArgs(prefix, destination_prefix, destination_bucket) ==
    IF validate_str_param(prefix) # "ok" THEN validate_str_param(prefix)
    ELSE IF /\ destination_prefix # None
            /\ validate_str_param(destination_prefix) # "ok"
         THEN validate_str_param(destination_prefix)
    ELSE IF destination_prefix # None /\ ~EndsWithSlash(destination_prefix)
         THEN "ValueError"
    ELSE IF destination_bucket # None
         THEN validate_str_param(destination_bucket)
    ELSE "ok"

\* copy_file_prefix(prefix, destination_prefix, destination_bucket) up to
\* the first listing request of get_keys_prefix(prefix).
copy_file_prefix(c, prefix, destination_prefix, destination_bucket) ==
    /\ calls[c].pc = "idle"
    /\ LET rec == Called(calls[c], "copy_file_prefix", prefix)
           args == CopyFilePrefixArgs(prefix, destination_prefix,
                                      destination_bucket)
       IN calls' = [calls EXCEPT ![c] =
            IF args # "ok" THEN Raised(rec, args)
            ELSE StartListing(
                   [rec EXCEPT !.phase = "sync",
                               !.prefix = prefix,
                               !.destination_prefix =
                                   IF destination_prefix = None
                                   THEN EmptyStr ELSE destination_prefix,
                               !.destination_bucket =
                                   IF destination_bucket = None
                                   THEN bucket_name
                                   ELSE destination_bucket], prefix)]
    /\ UNCHANGED <<semaphore, store, tasks>>
    /\ BulkFrame

\* One turn of the loop of copy_file_prefix, over the next key of the
\* listing: the destination key is computed, copy_file validates its
\* arguments and client.copy_object is called and answers. A key without
\* '.' raises IndexError and a remote error raises out of the loop, both
\* with the copies of the keys before made; after the last key the call
\* returns. The request is recorded as a task that has ended.
CopyFileStep(c, outcome) ==
    /\ calls[c].pc = "loop"
    /\ LET rec == calls[c]
           i == Cardinality(TasksOf(c, "sync")) + 1
           obj == rec.keys[i]
           destination_key == SyncDestinationKey(rec.destination_prefix, obj)
           request == [NewTask("copy", obj, destination_key,
                               rec.destination_bucket)
                         EXCEPT !.source_bucket = bucket_name,
                                !.issued = TRUE]
       IN IF \/ destination_key = None
             \/ validate_str_param(obj) # "ok"
             \/ validate_str_param(destination_key) # "ok"
          THEN /\ calls' = [calls EXCEPT ![c] =
                     Raised(rec, IF destination_key = None
                                 THEN "IndexError" ELSE "ValueError")]
               /\ UNCHANGED <<store, tasks>>
          ELSE IF outcome = "ok" /\ obj \in KeysOf(bucket_name)
          THEN /\ store' = [store EXCEPT ![rec.destination_bucket] =
                     With(@, destination_key, store[bucket_name][obj])]
               /\ tasks' = (TaskId(c, "sync", i) :>
                              [request EXCEPT !.pc = "done"]) @@ tasks
               /\ calls' = [calls EXCEPT ![c].pc =
                     IF i = Len(rec.keys) THEN "returned" ELSE "loop"]
          ELSE /\ tasks' = (TaskId(c, "sync", i) :>
                              [request EXCEPT !.pc = "failed"]) @@ tasks
               /\ calls' = [calls EXCEPT ![c] = Raised(rec, "ClientError")]
               /\ UNCHANGED store
    /\ UNCHANGED semaphore
    /\ BulkFrame

MaxNames == 3
NamePage == 2

\* "a.b.x", "a.b.y", "ab" and "ac.x", in the order of a listing: keys
\* under the prefix "a" with two dots, with none and with one.
NameKeys ==
    {<<97, Dot, 98, Dot, 120>>, <<97, Dot, 98, Dot, 121>>,
     <<97, 98>>, <<97, 99, Dot, 120>>}

\* <<destination_prefix, destination_bucket>> of the calls.
NameTargets == {<<None, None>>, <<FolderD, None>>, <<FolderD, BucketC>>}

InitNames ==
    /\ Constructed
    /\ max_keys = NamePage
    /\ \E S \in SUBSET NameKeys :
          /\ S # {}
          /\ Cardinality(S) <= MaxNames
          /\ store = [b \in Buckets |->
                        IF b = BucketB THEN Objects(b, S) ELSE << >>]
    /\ calls = [c \in {1} |-> IdleCall]

NextNames ==
    \/ \E a \in NameTargets, keep \in BOOLEAN :
          copy_object_prefix(1, PrefixA, a[1], a[2], keep)
    \/ \E a \in NameTargets : copy_file_prefix(1, PrefixA, a[1], a[2])
    \/ \E outcome \in BulkOutcomes : CopyFileStep(1, outcome)
    \/ CallProgress
    \/ CopyProgress

SpecNames == InitNames /\ [][NextNames]_vars

-----------------------------------------------------------------------------
(* The claims about upload_file_multipart *)

\* The places in the log of the requests of one kind.
RequestsOf(op) == {i \in DOMAIN requests : requests[i].op = op}

UploadEnded == upload.pc \in {"returned", "raised"}

CreateSucceeded ==
    \E i \in RequestsOf("create") : requests[i].outcome = "ok"

\* The requests that end a session: a complete or an abort that succeeded.
EndingRequests ==
    {i \in RequestsOf("complete") \cup RequestsOf("abort") :
        requests[i].outcome = "ok"}

\* C1: once createMultipartUpload has succeeded, when the call returns or
\* raises the session has been ended by exactly one complete or abort,
\* whichever later step failed (an uploadPart, the complete or a read of
\* the file) and whatever the kind of the failure. The abort request
\* itself is taken not to fail.
C1_SessionNeverDangling ==
    (/\ UploadEnded
     /\ CreateSucceeded
     /\ \A i \in RequestsOf("abort") : requests[i].outcome = "ok")
    => (/\ session \in {"completed", "aborted"}
        /\ Cardinality(EndingRequests) = 1)

\* The parts whose uploadPart failed with a classified remote error.
PartsFailedRemotely ==
    {requests[i].part : i \in {j \in RequestsOf("upload_part") :
                                  requests[j].outcome = "ClientError"}}

\* C2: when uploadPart of part k fails with a classified remote error,
\* complete is never called, no uploadPart is issued for a part after k,
\* abort is called at most once and with the uploadId that create
\* returned, and it has been called once the call has ended.
C2_AbortOnPartFailure ==
    \A k \in PartsFailedRemotely :
        /\ RequestsOf("complete") = {}
        /\ \A i \in RequestsOf("upload_part") : requests[i].part <= k
        /\ Cardinality(RequestsOf("abort")) <= 1
        /\ \A i \in RequestsOf("abort"), j \in RequestsOf("create") :
              requests[i].upload_id = requests[j].upload_id
        /\ UploadEnded => Cardinality(RequestsOf("abort")) = 1

\* C2's case: part 2 of an upload failed remotely, part 1 had been
\* uploaded, and the call has ended after its abort.
C2_Witness ==
    /\ UploadEnded
    /\ 2 \in PartsFailedRemotely
    /\ Len(upload.parts) = 1
    /\ RequestsOf("abort") # {}

-----------------------------------------------------------------------------
(* The claims about get_keys_prefix *)

\* Whether a sequence of keys is strictly ascending.
Ascending(keys) ==
    \A i \in 1..(Len(keys) - 1) : LexLess(keys[i], keys[i + 1])

KeySet(keys) == {keys[i] : i \in 1..Len(keys)}

\* C3: for every prefix, page size and bucket content, get_keys_prefix
\* returns each key that starts with the prefix exactly once, in ascending
\* order, and no other key, whatever the page size: what it has
\* accumulated is always strictly ascending and made of such keys, and
\* what it returns holds them all.
C3_ListingCompleteAndSorted ==
    \A c \in DOMAIN calls :
        calls[c].op = "get_keys_prefix"
        => /\ Ascending(calls[c].keys)
           /\ KeySet(calls[c].keys) \subseteq calls[c].keys0
           /\ calls[c].pc = "returned"
              => KeySet(calls[c].keys) = calls[c].keys0

\* C3's case: a listing of several pages has returned, from a bucket that
\* also holds a key outside the prefix.
C3_Witness ==
    /\ calls[1].op = "get_keys_prefix"
    /\ calls[1].pc = "returned"
    /\ calls[1].prefix # EmptyStr
    /\ Len(calls[1].keys) > max_keys
    /\ KeysOf(BucketB) \ calls[1].keys0 # {}

-----------------------------------------------------------------------------
(* The claims about the concurrency of the fan-out *)

CopiesInFlight ==
    {t \in DOMAIN tasks : tasks[t].kind = "copy" /\ tasks[t].pc = "inflight"}

\* C4: at most 5 copyObject calls are in flight on one client, for any
\* number of keys and of concurrent copy_object_prefix and copy_object
\* calls.
C4_AtMostFiveCopiesInFlight ==
    Cardinality(CopiesInFlight) <= MaxConcurrent

\* C4's case: five copies are in flight, of the tasks of more than one
\* call, and another task waits for a permit.
C4_Witness ==
    /\ Cardinality(CopiesInFlight) = MaxConcurrent
    /\ \E t \in DOMAIN tasks : tasks[t].pc = "waiting"
    /\ \E t, u \in CopiesInFlight : t[1] # u[1]

DeletesInFlight ==
    {t \in DOMAIN tasks :
        tasks[t].kind = "delete" /\ tasks[t].pc \in {"list", "deleting"}}

\* C5: during delete_object_prefix over more than 5 keys, at most 5 of
\* the per-key delete tasks have a remote call (a listing or the
\* deleteObject) in flight.
C5_AtMostFiveDeletesInFlight ==
    Cardinality(DeletesInFlight) <= MaxConcurrent

-----------------------------------------------------------------------------
(* The claims about the bucket of a call in flight *)

\* C6: every remote request of a get_keys_prefix, copy_object_prefix,
\* delete_object_prefix or move_object_prefix in flight names the bucket
\* that was active when the call was made, whatever set_bucket_name does
\* meanwhile: its listing requests, the source and the default
\* destination of its copies, the listings and the deletes of its tasks.
C6_RequestsNameTheBucketOfTheCall ==
    /\ \A c \in DOMAIN calls :
         calls[c].pc = "list" => calls[c].req.bucket = calls[c].bucket0
    /\ \A t \in DOMAIN tasks :
         /\ (t[1] \in DOMAIN calls /\ tasks[t].pc = "inflight")
            => /\ tasks[t].source_bucket = calls[t[1]].bucket0
               /\ tasks[t].destination_bucket
                    \in {calls[t[1]].bucket0, BucketC}
         /\ (t[1] \in DOMAIN calls /\ tasks[t].pc \in {"list", "deleting"})
            => tasks[t].req.bucket = calls[t[1]].bucket0

-----------------------------------------------------------------------------
(* The claims about move_object_prefix and the gather of the tasks *)

\* C7: after move_object_prefix(P, F) has returned, on a bucket nothing
\* else modifies, every key k that started with P is gone and F + k holds
\* the content k held, also when F itself starts with P.
C7_MoveKeepsEveryObject ==
    \A c \in DOMAIN calls :
        (calls[c].op = "move_object_prefix" /\ calls[c].pc = "returned")
        => \A k \in calls[c].keys0 :
             /\ k \notin KeysOf(calls[c].bucket0)
             /\ calls[c].destination_prefix \o k \in KeysOf(calls[c].bucket0)
             /\ store[calls[c].bucket0][calls[c].destination_prefix \o k]
                  = <<calls[c].bucket0, k>>

CopyFailed(c) == \E t \in TasksOf(c, "copy") : tasks[t].pc = "failed"

\* C8: in move_object_prefix no delete task exists, so no deleteObject is
\* issued, before every copy of the copy phase has completed with
\* success; and when a copy has failed the move never reaches its delete
\* phase nor returns normally, and every source object is still there.
C8_CopyThenDelete ==
    \A c \in DOMAIN calls :
        calls[c].op = "move_object_prefix"
        => /\ (calls[c].phase = "delete" \/ TasksOf(c, "delete") # {})
              => \A t \in TasksOf(c, "copy") : tasks[t].pc = "done"
           /\ CopyFailed(c)
              => /\ calls[c].phase = "copy"
                 /\ TasksOf(c, "delete") = {}
                 /\ calls[c].pc \in {"gather", "raised"}
                 /\ \A k \in calls[c].keys0 :
                      /\ k \in KeysOf(calls[c].bucket0)
                      /\ store[calls[c].bucket0][k] = <<calls[c].bucket0, k>>

\* C8's case: a move has raised after one of its copies failed and
\* another succeeded.
C8_Witness ==
    /\ calls[1].op = "move_object_prefix"
    /\ calls[1].pc = "raised"
    /\ CopyFailed(1)
    /\ \E t \in TasksOf(1, "copy") : tasks[t].pc = "done"

\* C9: copy_object_prefix and delete_object_prefix return or raise only
\* after every task they created has finished, also when a task failed.
C9_NoTaskOutlivesTheCall ==
    \A c \in DOMAIN calls :
        (calls[c].op \in {"copy_object_prefix", "delete_object_prefix"}
         /\ CallEnded(c))
        => \A t \in DOMAIN tasks : t[1] = c => TaskEnded(t)

\* A task of the same call and phase has failed.
SiblingFailed(t) ==
    \E u \in DOMAIN tasks :
        u # t /\ u[1] = t[1] /\ u[2] = t[2] /\ tasks[u].pc = "failed"

\* Every task with a failed sibling has finished with a result or an
\* error of its own, a copy task having issued its copyObject and a delete
\* task that is done leaving its key absent.
SiblingsSettled ==
    \A t \in DOMAIN tasks :
        SiblingFailed(t)
        => /\ TaskEnded(t)
           /\ tasks[t].kind = "copy" => tasks[t].issued
           /\ (tasks[t].kind = "delete" /\ tasks[t].pc = "done")
              => tasks[t].key \notin KeysOf(calls[t[1]].bucket0)

\* C10: when the task of one key has failed, no sibling is cancelled:
\* every other task of the call still issues its request and runs to
\* completion. The state of a task only moves forward, so this is that
\* from some moment on every sibling of a failed task is settled.
C10_SiblingsRunToCompletion == <>[]SiblingsSettled

\* C10's case: the call has raised for a failed task while a sibling has
\* its request in flight.
C10_Witness ==
    /\ ~SiblingsSettled
    /\ calls[1].pc = "raised"
    /\ \E t, u \in DOMAIN tasks :
         /\ t # u
         /\ t[2] = u[2]
         /\ tasks[t].pc = "failed"
         /\ tasks[u].pc \in {"inflight", "deleting"}

-----------------------------------------------------------------------------
(* The claims about the outcome of a bulk call and of an upload *)

\* The outcome of the task of the i-th key of a call.
OutcomeOfKey(c, i) ==
    IF tasks[TaskId(c, calls[c].phase, i)].pc = "done"
    THEN "ok" ELSE "ClientError"

\* Some tasks of the call have failed and others have succeeded.
PartialBulkFailure(c) ==
    /\ \E t \in TasksOf(c, calls[c].phase) : tasks[t].pc = "failed"
    /\ \E t \in TasksOf(c, calls[c].phase) : tasks[t].pc = "done"

\* C11: when some tasks of a bulk copy or delete have failed and others
\* have succeeded, what the call gives its caller holds one outcome for
\* each enumerated key, the i-th being that of the i-th key, and not one
\* error alone.
C11_OneOutcomePerKey ==
    \A c \in DOMAIN calls :
        (/\ calls[c].op \in {"copy_object_prefix", "delete_object_prefix"}
         /\ CallEnded(c)
         /\ PartialBulkFailure(c))
        => /\ Len(OutcomesGiven(c)) = Len(calls[c].keys)
           /\ \A i \in 1..Len(calls[c].keys) :
                 TaskEnded(TaskId(c, calls[c].phase, i))
                 => OutcomesGiven(c)[i] = OutcomeOfKey(c, i)

\* The remote requests of the upload that failed with a classified error.
FailedRemotely(op) ==
    {i \in RequestsOf(op) : requests[i].outcome = "ClientError"}

\* C12: when uploadPart or completeMultipartUpload has failed with a
\* classified remote error, upload_file_multipart ends with an error its
\* caller sees, after the abort; it never returns normally.
C12_RemoteErrorIsRaised ==
    (/\ UploadEnded
     /\ FailedRemotely("upload_part") \cup FailedRemotely("complete") # {})
    => /\ upload.pc = "raised"
       /\ RequestsOf("abort") # {}

-----------------------------------------------------------------------------
(* The claims about the path, the part size and the parts of an upload *)

MultipartRequests ==
    RequestsOf("create") \cup RequestsOf("upload_part")
        \cup RequestsOf("complete") \cup RequestsOf("abort")

\* C13: upload_file_multipart chooses its path by the size of the file
\* alone. Below the minimum part size it issues no request of a multipart
\* session and one plain upload, exactly one once it has ended; at the
\* minimum part size and above it issues no plain upload and one
\* createMultipartUpload. An object_key that fails its validation raises
\* before any request on both paths.
C13_PathBySizeAlone ==
    upload.pc # "idle"
    => /\ upload.file_size < min_part_size
          => /\ MultipartRequests = {}
             /\ Cardinality(RequestsOf("upload_file")) <= 1
             /\ (UploadEnded /\ upload.error # "ValueError")
                => Cardinality(RequestsOf("upload_file")) = 1
       /\ upload.file_size >= min_part_size
          => /\ RequestsOf("upload_file") = {}
             /\ Cardinality(RequestsOf("create")) <= 1
             /\ (upload.pc # "create" /\ upload.error # "ValueError")
                => Cardinality(RequestsOf("create")) = 1

\* C13's case: a file of exactly the minimum part size has been uploaded
\* through a multipart session.
C13_Witness ==
    /\ upload.file_size = min_part_size
    /\ session = "completed"
    /\ RequestsOf("upload_file") = {}

\* ceil(a / b)
CeilDiv(a, b) == (a + b - 1) \div b

\* max(min_part_size, ceil(size / MaxParts))
CeilPartSize(size) ==
    IF CeilDiv(size, MaxParts) > min_part_size
    THEN CeilDiv(size, MaxParts)
    ELSE min_part_size

\* C14: for every file of at least the minimum part size, the part size
\* of the upload is max(minimum part size, ceil(size / MaxParts)), so that
\* the upload never issues more than MaxParts uploadPart calls.
C14_PartSizeKeepsWithinMaxParts ==
    CreateSucceeded
    => /\ upload.part_size = CeilPartSize(upload.file_size)
       /\ Cardinality(RequestsOf("upload_part")) <= MaxParts

\* The uploadPart requests, in the order they were issued.
PartsSent == SelectSeq(requests, LAMBDA r : r.op = "upload_part")

\* C15: uploadPart is issued with the part numbers 1, 2, ... in that
\* order, each after the response to the one before; and an upload that
\* completes has called completeMultipartUpload once, with one entry for
\* each chunk of the file, the i-th being PartNumber i with the ETag that
\* the uploadPart of part i returned.
C15_PartsInOrderWithTheirETags ==
    /\ \A i \in 1..Len(PartsSent) : PartsSent[i].part = i
    /\ \A i \in 1..(Len(PartsSent) - 1) : PartsSent[i].outcome = "ok"
    /\ Cardinality(RequestsOf("complete")) <= 1
    /\ session = "completed"
       => /\ Cardinality(RequestsOf("complete")) = 1
          /\ Len(upload.parts)
               = CeilDiv(upload.file_size, upload.part_size)
          /\ Len(PartsSent) = Len(upload.parts)
          /\ \A i \in 1..Len(upload.parts) :
                upload.parts[i] = [PartNumber |-> i,
                                   ETag |-> PartsSent[i].etag]

\* C15's case: an upload of several parts, with ETags that differ, has
\* completed.
C15_Witness ==
    /\ session = "completed"
    /\ Len(upload.parts) > 1
    /\ upload.parts[1].ETag # upload.parts[2].ETag

-----------------------------------------------------------------------------
(* The claims about the validation of arguments and the active bucket *)

\* The call has issued no remote request and has changed nothing.
NothingDone(c) ==
    /\ calls[c].pc = "raised"
    /\ calls[c].req.bucket = EmptyStr
    /\ calls[c].keys = << >>
    /\ \A t \in DOMAIN tasks : t[1] # c
    /\ \E n \in 0..NumKeys : store = StoreOf(n)
    /\ bucket_name = calls[c].bucket0

\* C16: the validation of the arguments precedes all I/O. A
\* copy_object_prefix or move_object_prefix that failed its validation
\* has raised with no listing, copy or delete issued and with the bucket
\* contents and the active bucket unchanged; and one that went past its
\* validation has a destination prefix that ends with '/', or none
\* together with keep_original_name False.
C16_ValidationPrecedesIO ==
    \A c \in DOMAIN calls :
        calls[c].op \in {"copy_object_prefix", "move_object_prefix"}
        => /\ calls[c].error = "ValueError" => NothingDone(c)
           /\ calls[c].error # "ValueError"
              => /\ \/ calls[c].destination_prefix = EmptyStr
                    \/ EndsWithSlash(calls[c].destination_prefix)
                 /\ calls[c].destination_prefix = EmptyStr
                    => ~calls[c].keep_original_name

\* C16's case: a copy_object_prefix with invalid arguments has raised on
\* a bucket that holds keys under its prefix.
C16_Witness ==
    /\ calls[1].op = "copy_object_prefix"
    /\ calls[1].error = "ValueError"
    /\ calls[1].keys0 # {}

\* Whether a value is a str that is not empty nor made of whitespace.
NonEmptyName(name) == name # None /\ Strip(name) # << >>

C18_ActiveBucketNeverEmpty == NonEmptyName(bucket_name)

\* C18's case: bucket switches have been attempted while a bulk call was
\* awaiting its tasks.
C18_Witness ==
    /\ switches = MaxSwitches
    /\ \E c \in DOMAIN calls : calls[c].pc = "gather"
    /\ \E t \in DOMAIN tasks : tasks[t].pc = "done"

-----------------------------------------------------------------------------
(* The claims about deleting what is not there *)

\* C19: delete_object_prefix on a valid prefix that no key starts with
\* completes with success, unless its listing request itself fails: it
\* creates no task, so it issues no deleteObject, never waits for a gather,
\* and leaves the bucket contents unchanged.
C19_DeleteOfNoKeyIsNoOp ==
    \A c \in DOMAIN calls :
        (/\ calls[c].op = "delete_object_prefix"
         /\ calls[c].keys0 = {}
         /\ calls[c].error # "ValueError")
        => /\ \/ calls[c].pc \in {"list", "returned"}
              \/ calls[c].pc = "raised" /\ calls[c].error = "ClientError"
           /\ \A t \in DOMAIN tasks : t[1] # c
           /\ store = StoreOf(0)

\* C19's case: a delete_object_prefix has returned on a bucket that holds
\* an object, none under the prefix.
C19_Witness ==
    /\ calls[1].op = "delete_object_prefix"
    /\ calls[1].pc = "returned"
    /\ calls[1].keys0 = {}
    /\ Outsider \in KeysOf(BucketB)

\* C20: deleting a key that is not there is a no-op and no error. With
\* remote calls that succeed, a delete_object of an absent key and a task
\* of delete_object_prefix whose key another actor has removed since the
\* enumeration never fail, the call never raises, and no other object is
\* changed: the object outside the prefix, the other bucket and the
\* content of every object that is left are as they were.
C20_DeleteOfAbsentKeyIsNoOp ==
    /\ \A t \in DOMAIN tasks :
          tasks[t].pc \in {"created", "list", "deleting", "done"}
    /\ \A c \in DOMAIN calls : calls[c].pc # "raised"
    /\ Outsider \in KeysOf(BucketB)
    /\ \A k \in KeysOf(BucketB) : store[BucketB][k] = <<BucketB, k>>
    /\ store[BucketC] = StoreOf(0)[BucketC]

\* C20's case: a delete_object_prefix has returned with a task that found
\* its key gone and issued no deleteObject, and a delete_object of a key
\* that the bucket never held has completed.
C20_Witness ==
    /\ calls[1].pc = "returned"
    /\ \E t \in TasksOf(1, "delete") :
          tasks[t].pc = "done" /\ ~tasks[t].issued
    /\ TaskId(0, "delete", 1) \in DOMAIN tasks
    /\ tasks[TaskId(0, "delete", 1)].key = AbsentKey
    /\ tasks[TaskId(0, "delete", 1)].pc = "done"

\* A prefix get_keys_prefix refuses: a value that is not a str, or a str
\* that is not "" and holds nothing but white space.
RefusedPrefix(prefix) ==
    \/ prefix = None
    \/ /\ prefix # EmptyStr
       /\ \A i \in 1..Len(prefix) : prefix[i] = Space

\* C21: get_keys_prefix fails before any listing request when its prefix
\* is not a string or is a non-empty blank string: the call has raised
\* TypeError or ValueError and has issued no request. The empty prefix
\* is accepted: the call issues its request, and when it returns it
\* returns all keys of the bucket.
C21_PrefixValidatedBeforeListing ==
    \A c \in DOMAIN calls :
        calls[c].op = "get_keys_prefix" =>
          /\ RefusedPrefix(calls[c].prefix) =>
                /\ calls[c].pc = "raised"
                /\ calls[c].error \in {"TypeError", "ValueError"}
                /\ calls[c].listed = 0
                /\ calls[c].req.bucket = EmptyStr
          /\ calls[c].prefix = EmptyStr =>
                /\ calls[c].listed >= 1
                /\ calls[c].pc = "raised" => calls[c].error = "ClientError"
                /\ calls[c].pc = "returned" =>
                      KeySet(calls[c].keys) = KeysOf(calls[c].bucket0)

\* C21's case: a get_keys_prefix(" ") on a bucket that holds objects has
\* raised.
C21_Witness ==
    /\ calls[1].op = "get_keys_prefix"
    /\ calls[1].prefix = <<Space>>
    /\ calls[1].pc = "raised"
    /\ KeysOf(BucketB) # {}

\* The name of the copy of a key that holds a '.': what is before its
\* last '.', then "_copy.", then what is after it.
CopyName(k) ==
    LET i == CHOOSE i \in 1..Len(k) :
                 k[i] = Dot /\ \A j \in (i + 1)..Len(k) : k[j] # Dot
    IN SubSeq(k, 1, i - 1) \o <<95, 99, 111, 112, 121, 46>>
       \o SubSeq(k, i + 1, Len(k))

HasDot(k) == \E i \in 1..Len(k) : k[i] = Dot

\* C22: copy_object_prefix of the asynchronous client has exactly one
\* copy task per enumerated source key k, whose request names k as the
\* source and, as the destination, D + k when keep_original_name is True
\* and D + stem + "_copy." + ext when it is False, split at the LAST '.'
\* of k (D is the destination prefix, empty when none is given). When the
\* call returns every one of these requests has been issued and the copy
\* is stored under that name.
C22_OneCopyPerKeyNamedByLastDot ==
    \A c \in DOMAIN calls :
        (/\ calls[c].op = "copy_object_prefix"
         /\ calls[c].phase = "copy"
         /\ \/ calls[c].pc \in {"gather", "returned"}
            \/ calls[c].pc = "raised" /\ TasksOf(c, "copy") # {})
        => LET rec == calls[c]
           IN /\ KeySet(rec.keys) = rec.keys0
              /\ Len(rec.keys) = Cardinality(rec.keys0)
              /\ TasksOf(c, "copy")
                   = {TaskId(c, "copy", i) : i \in 1..Len(rec.keys)}
              /\ \A i \in 1..Len(rec.keys) :
                    LET t == tasks[TaskId(c, "copy", i)]
                        k == rec.keys[i]
                    IN /\ t.key = k
                       /\ t.destination_bucket = rec.destination_bucket
                       /\ t.destination_key =
                            IF rec.keep_original_name
                            THEN rec.destination_prefix \o k
                            ELSE rec.destination_prefix \o CopyName(k)
                       /\ rec.pc = "returned" =>
                            /\ t.issued /\ t.pc = "done"
                            /\ t.destination_key
                                 \in KeysOf(rec.destination_bucket)

\* C22's case: a copy_object_prefix with keep_original_name=False has
\* returned after copying "a.b.x" and "ac.x" into the folder "d/": the
\* bucket holds "d/a.b_copy.x" and "d/ac_copy.x".
C22_Witness ==
    /\ calls[1].op = "copy_object_prefix"
    /\ calls[1].pc = "returned"
    /\ ~calls[1].keep_original_name
    /\ {<<97, Dot, 98, Dot, 120>>, <<97, 99, Dot, 120>>}
         \subseteq KeySet(calls[1].keys)
    /\ <<100, Slash, 97, Dot, 98, 95, 99, 111, 112, 121, Dot, 120>>
         \in KeysOf(BucketB)
    /\ <<100, Slash, 97, 99, 95, 99, 111, 112, 121, Dot, 120>>
         \in KeysOf(BucketB)

\* The requests and pages of a get_keys_prefix over a bucket that does
\* not change: the first request has no StartAfter, every later one has
\* the last key accumulated so far, each page with contents is followed
\* by one more request, the pages are full but the last, and a call that
\* returned stopped on an empty page, with nothing left to list.
ListingCursor(c) ==
    LET rec == calls[c]
    IN /\ rec.pc \in {"list", "returned"} => rec.listed = rec.pages + 1
       /\ rec.pc = "raised" => rec.listed \in {0, rec.pages + 1}
       /\ rec.pc = "list" =>
             rec.req.start_after =
                 IF rec.keys = << >> THEN None ELSE rec.keys[Len(rec.keys)]
       /\ rec.keys = << >> <=> rec.pages = 0
       /\ rec.pages * max_keys >= Len(rec.keys)
       /\ Len(rec.keys) > (rec.pages - 1) * max_keys
       /\ rec.listed <= Cardinality(rec.keys0) + 1
       /\ rec.pc = "returned" => Len(rec.keys) = Cardinality(rec.keys0)

\* C23: over a finite bucket content that does not change, get_keys_prefix
\* terminates; each follow-up request uses as StartAfter the last key
\* accumulated so far, and the loop stops only on an empty page, so the
\* call issues exactly one more listing request than it received pages
\* with contents.
C23_ListingTerminates ==
    /\ [](\A c \in DOMAIN calls : ListingCursor(c))
    /\ <>[](\A c \in DOMAIN calls : CallEnded(c))

\* C23's case: a get_keys_prefix has returned three keys after two pages
\* with contents and three requests.
C23_Witness ==
    /\ calls[1].op = "get_keys_prefix"
    /\ calls[1].pc = "returned"
    /\ Len(calls[1].keys) = 3
    /\ calls[1].pages = 2
    /\ calls[1].listed = 3

CreateFailedRemotely ==
    \E i \in RequestsOf("create") : requests[i].outcome = "ClientError"

\* C24: when createMultipartUpload itself fails with a classified remote
\* error, the call issues no abortMultipartUpload, no uploadPart and no
\* completeMultipartUpload, and the failure that reaches the caller is
\* that remote error: the call has raised ClientError.
C24_CreateFailureReachesCaller ==
    CreateFailedRemotely =>
        /\ RequestsOf("abort") = {}
        /\ RequestsOf("upload_part") = {}
        /\ RequestsOf("complete") = {}
        /\ upload.pc = "raised"
        /\ upload.error = "ClientError"

\* The tasks of a call, of both phases.
AllTasksOf(c) == {t \in DOMAIN tasks : t[1] = c}

\* The statement of C25 as it is written: after a listing request of a
\* bulk call has failed, the call has raised that error and no copyObject
\* and no deleteObject request of the call has been issued at all.
C25_NoRequestAfterListingFailure ==
    \A c \in DOMAIN calls :
        calls[c].list_error # "none" =>
          /\ calls[c].pc = "raised"
          /\ calls[c].error = calls[c].list_error
          /\ \A t \in AllTasksOf(c) : ~tasks[t].issued

\* C25: when a listing request fails during an enumeration of
\* copy_object_prefix, delete_object_prefix or move_object_prefix, the
\* call ends with that error and the keys accumulated so far are never
\* acted upon: no task of the phase being enumerated exists, and no
\* deleteObject request is issued. copy_object_prefix and
\* delete_object_prefix have issued no request at all; a
\* move_object_prefix whose second enumeration fails has issued the
\* copies of its first phase, over the complete listing, and they have
\* all succeeded.
C25_PartialListingNeverActedUpon ==
    \A c \in DOMAIN calls :
        calls[c].list_error # "none" =>
          /\ calls[c].pc = "raised"
          /\ calls[c].error = calls[c].list_error
          /\ TasksOf(c, calls[c].phase) = {}
          /\ TasksOf(c, "delete") = {}
          /\ calls[c].op # "move_object_prefix" => AllTasksOf(c) = {}
          /\ \A t \in AllTasksOf(c) :
                /\ tasks[t].pc = "done"
                /\ tasks[t].key \in calls[c].keys0

\* C25's case: the second listing request of a copy_object_prefix or a
\* delete_object_prefix has failed, after a first page with keys.
C25_Witness ==
    /\ calls[1].op \in {"copy_object_prefix", "delete_object_prefix"}
    /\ calls[1].list_error = "ClientError"
    /\ calls[1].keys # << >>
    /\ calls[1].pages = 1

\* C26: all requests of one multipart upload session (the create, every
\* uploadPart, and the final complete or abort) carry the same bucket,
\* the same key and the same uploadId, whatever set_bucket_name does on
\* the same client between them.
C26_SessionRequestsAgree ==
    \A i \in RequestsOf("create") :
        requests[i].outcome = "ok" =>
          \A j \in RequestsOf("upload_part") \cup RequestsOf("complete")
                   \cup RequestsOf("abort") :
              /\ requests[j].bucket = requests[i].bucket
              /\ requests[j].key = requests[i].key
              /\ requests[j].upload_id = requests[i].upload_id

\* C27: for the same bucket contents, prefix, destination prefix and
\* destination bucket, copy_file_prefix of the synchronous client issues
\* copyObject for the same (source key, destination key) pairs as
\* copy_object_prefix with keep_original_name=False, for every key that
\* holds a '.': each of its requests names the destination the
\* asynchronous client computes for that source key, and no two source
\* keys are given the same destination key.
C27_SyncCopiesAsAsync ==
    \A c \in DOMAIN calls :
        calls[c].op = "copy_file_prefix" =>
          /\ \A t \in TasksOf(c, "sync") :
                HasDot(tasks[t].key) =>
                  tasks[t].destination_key =
                      DestinationKey(calls[c].destination_prefix,
                                     tasks[t].key, FALSE)
          /\ \A t, u \in TasksOf(c, "sync") :
                tasks[t].key # tasks[u].key
                  => tasks[t].destination_key # tasks[u].destination_key

\* Every object is where it was first stored: no copy has been created.
NoObjectCreated ==
    \A b \in Buckets : \A k \in KeysOf(b) : store[b][k] = <<b, k>>

\* C28: in copy_object_prefix with keep_original_name=False, when one of
\* the enumerated keys holds no '.', the call fails with an error before
\* it creates any copy task, wherever that key falls in the listing: once
\* the enumeration is over the call has raised, it has no task, no
\* copyObject request is issued and no object is created.
C28_DotlessKeyFailsBeforeAnyCopy ==
    \A c \in DOMAIN calls :
        (/\ calls[c].op = "copy_object_prefix"
         /\ calls[c].listed > 0
         /\ ~calls[c].keep_original_name
         /\ \E k \in calls[c].keys0 : ~HasDot(k)
         /\ calls[c].pc # "list"
         /\ calls[c].list_error = "none")
        => /\ calls[c].pc = "raised"
           /\ calls[c].error = "IndexError"
           /\ AllTasksOf(c) = {}
           /\ NoObjectCreated

\* C28's case: such a call has raised over a listing of three keys where
\* the key without '.', "ab", comes second, after "a.b.x" and before
\* "ac.x".
C28_Witness ==
    /\ calls[1].op = "copy_object_prefix"
    /\ ~calls[1].keep_original_name
    /\ calls[1].pc = "raised"
    /\ calls[1].keys = <<<<97, Dot, 98, Dot, 120>>, <<97, 98>>,
                         <<97, 99, Dot, 120>>>>

CopiesWaiting == {t \in DOMAIN tasks : tasks[t].pc = "waiting"}

\* Every permit is either free or held by a copy call in flight.
PermitsBalanced ==
    /\ semaphore >= 0
    /\ semaphore + Cardinality(CopiesInFlight) = MaxConcurrent
    /\ CopiesInFlight = {} => semaphore = 5

\* C29: the gate of the copies never leaks or deadlocks. A permit is
\* given back when a copy call fails as when it succeeds, so the free
\* permits and the copy calls in flight always add up to 5, and the
\* permits are 5 again whenever no copy is in flight; and, every remote
\* copy call returning or failing, every task that waits for the
\* semaphore acquires it: from some point on no task is waiting.
C29_GateNeverLeaksOrDeadlocks ==
    /\ []PermitsBalanced
    /\ <>[](CopiesWaiting = {})

\* C29's case: a task is waiting for the semaphore while a copy call
\* that failed has given its permit back.
C29_Witness ==
    /\ CopiesWaiting # {}
    /\ \E t \in DOMAIN tasks : tasks[t].kind = "copy" /\ tasks[t].pc = "failed"
    /\ semaphore > 0

=============================================================================
